---- MODULE Spec2Model ----
(***************************************************************************)
(* Shipping-label automation: the retry utility (utils/retry.js), the rate *)
(* selection rule (rules.js) and the webhook handler that composes them    *)
(* (index.js, purchaseShippingLabelsHandler).                              *)
(*                                                                         *)
(* Numbers.  Delays are milliseconds.  The jitter factor is kept in halves *)
(* (jitter 0.5 is 1, jitter 1 is 2) and a Math.random() draw in quarters   *)
(* (0, 1/4, 2/4, 3/4); every interval and cap the model draws is a         *)
(* multiple of 8 ms, so that delay * jitter * random is a whole number.    *)
(***************************************************************************)
EXTENDS Integers, Sequences, FiniteSets, TLC

VARIABLES
    rpc,          \* position of the retry() call: idle, await, sleep, returned, thrown
    asyncFn,      \* retry(): typeof the asyncFn argument
    ErrorTypes,   \* retry(): the ErrorTypes argument
    opt,          \* retry(): the options, destructured into locals
    attempt,      \* retry.js: let attempt
    calls,        \* number of invocations of asyncFn so far
    hist,         \* outcome of each attempt, as retry() saw it
    delay,        \* the delay of the suspension in progress (-1: none)
    sleeps,       \* number of suspensions started
    outstanding,  \* invocations of asyncFn that have not settled yet
    result,       \* what retry() returned or threw
    easypostShipment,  \* rules(): the argument of a direct call
    rulesResult,       \* rules(): what that call settled with
    env,               \* Bun.env: the process environment
    hpc,               \* position of purchaseShippingLabelsHandler
    fulfillmentOrders, \* index.js:57: the status of each fulfillment order fetched
    fo,                \* index.js:58: the fulfillment order being processed (index)
    chosenRate,        \* index.js:121
    shipmentResponse,  \* index.js:122
    notifications,     \* "no suitable shipping rate" mails sent
    buys,              \* calls of easypost.buyShipment so far
    slipMails,         \* fulfillment mails sent
    herr,              \* the error the handler rejected with
    request,           \* the POST request received on /hooks/purchase-shipping-labels
    status,            \* the status of the response to it (0: none yet)
    started,           \* calls of purchaseShippingLabelsHandler made by the route
    other,             \* the locals of a second retry() call in progress
    focus,             \* which of the two retry() calls the retry variables hold
    shop,              \* Shopify: the status of each fulfillment order of the order
    runs,              \* the handler runs started by deliveries of one webhook
    labels             \* labels bought by those runs: [run, fo]

retryVars == <<rpc, asyncFn, ErrorTypes, opt, attempt, calls, hist, delay, sleeps, outstanding, result>>

rulesVars == <<easypostShipment, rulesResult>>

webVars == <<request, status, started>>

concVars == <<other, focus>>

dupVars == <<shop, runs, labels>>

handlerVars == <<env, hpc, fulfillmentOrders, fo, chosenRate, shipmentResponse,
                 notifications, buys, slipMails, herr, webVars, concVars, dupVars>>

vars == <<retryVars, rulesVars, handlerVars>>

\* ------------------------------------------------------------ bounds
\* Largest maxRetries value a caller passes explicitly.
MaxN == 2
\* Longest list of rates handed to rules() directly.
MaxRates == 3
\* Largest value of SHIPPING_RATE_SEARCH_RETRIES in the environment.
MaxEnvRetries == 1
\* Most fulfillment orders in an order.
MaxFulfillmentOrders == 2

\* ------------------------------------------------ retry.js: defaults
DefaultBackoffMultiplier == 2
DefaultRetryInterval == 1000
DefaultMaxRetries == 3
\* jitter = 1, in halves
DefaultJitter == 2
DefaultMaxDelay == 30000
DefaultTimeout == 0

\* ------------------------------------------------ JavaScript values
\* A value passed as maxRetries: a number or a string (process environment
\* values are strings); nan: it does not convert to a number; v: the floor of
\* its numeric value; frac: the numeric value is v + 1/2.
Num(n) == [t |-> "number", nan |-> FALSE, v |-> n, frac |-> FALSE]
Str(n) == [t |-> "string", nan |-> FALSE, v |-> n, frac |-> FALSE]
NumHalf(n) == [t |-> "number", nan |-> FALSE, v |-> n, frac |-> TRUE]
StrNaN == [t |-> "string", nan |-> TRUE, v |-> 0, frac |-> FALSE]

\* Mutant: the loop condition written attempt < maxRetries.
LooseLE_Strict(a, m) == ~m.nan /\ a < m.v

\* attempt <= maxRetries, attempt a whole number (a comparison with NaN is false)
LooseLE(a, m) == ~m.nan /\ a <= m.v
\* attempt === maxRetries: no conversion, a string never equals a number
StrictEq(a, m) == m.t = "number" /\ ~m.nan /\ ~m.frac /\ a = m.v
\* maxRetries < 0
LooseNegative(m) == ~m.nan /\ m.v < 0

\* An options object: a record holding only the keys the caller gave.
NoOpt == [k \in {} |-> TRUE]
Opt(o, key, default) == IF key \in DOMAIN o THEN o[key] ELSE default

\* ---------------------------------------------------------- errors
\* kind: the constructor; seq: the attempt that raised it (0: before any).
Err(kind, msg, seq) == [kind |-> kind, msg |-> msg, seq |-> seq]

\* Mutant: every error counts as an instance of every listed type.
IsInstance_AnyError(kind, ErrorType) == TRUE

\* error instanceof ErrorType || error.constructor === ErrorType; every error
\* class here extends Error.
IsInstance(kind, ErrorType) == kind = ErrorType \/ ErrorType = "Error"

Undefined == [t |-> "undefined"]
\* A value an operation resolves with; n: the invocation that produced it.
Value(s, n) == [t |-> "value", s |-> s, n |-> n]
Returned(v) == [t |-> "return", v |-> v]
Thrown(e) == [t |-> "throw", e |-> e]

\* ------------------------------------------------ retry.js: retry()
\* retry.js:16-24: the options destructured into locals, with their defaults.
Destructure(o) ==
    [backoff |-> Opt(o, "backoff", TRUE),
     backoffMultiplier |-> Opt(o, "backoffMultiplier", DefaultBackoffMultiplier),
     retryInterval |-> Opt(o, "retryInterval", DefaultRetryInterval),
     maxRetries |-> Opt(o, "maxRetries", Num(DefaultMaxRetries)),
     jitter |-> Opt(o, "jitter", DefaultJitter),
     maxDelay |-> Opt(o, "maxDelay", DefaultMaxDelay),
     timeout |-> Opt(o, "timeout", DefaultTimeout)]

RECURSIVE Pow(_, _)
Pow(b, e) == IF e <= 0 THEN 1 ELSE b * Pow(b, e - 1)

Min(a, b) == IF a <= b THEN a ELSE b
Max(a, b) == IF a >= b THEN a ELSE b

\* Mutant: the jitter range check left out.
Validate_NoJitterCheck(fn, E, o) ==
    IF fn # "function" THEN Thrown(Err("TypeError", "asyncFn must be a function", 0))
    ELSE IF ~E.isArray
        THEN Thrown(Err("TypeError", "ErrorTypes must be an array", 0))
    ELSE IF LooseNegative(o.maxRetries)
        THEN Thrown(Err("RangeError", "maxRetries must be non-negative", 0))
    ELSE IF o.retryInterval < 0
        THEN Thrown(Err("RangeError", "retryInterval must be non-negative", 0))
    ELSE Undefined

\* The validation of retry.js:27-41: the error thrown, or Undefined.
\* fn: typeof asyncFn; E: the ErrorTypes argument; o: the destructured options.
Validate(fn, E, o) ==
    IF fn # "function" THEN Thrown(Err("TypeError", "asyncFn must be a function", 0))
    ELSE IF ~E.isArray
        THEN Thrown(Err("TypeError", "ErrorTypes must be an array", 0))
    ELSE IF o.jitter < 0 \/ o.jitter > 2
        THEN Thrown(Err("RangeError", "jitter must be between 0 and 1.0", 0))
    ELSE IF LooseNegative(o.maxRetries)
        THEN Thrown(Err("RangeError", "maxRetries must be non-negative", 0))
    ELSE IF o.retryInterval < 0
        THEN Thrown(Err("RangeError", "retryInterval must be non-negative", 0))
    ELSE Undefined

\* Mutant: the last attempt detected one attempt early.
IsLastAttempt_OneEarly(a, o) == StrictEq(a + 1, o.maxRetries)

\* Mutant: the last attempt detected one attempt late.
IsLastAttempt_OneLate(a, o) == StrictEq(a, Num(o.maxRetries.v + 1))

\* retry.js:62
IsLastAttempt(a, o) == StrictEq(a, o.maxRetries)

\* Mutant: the error type is not looked at.
shouldRetry_Always(error, E) == TRUE

\* Mutant: an empty list is not taken to mean every error.
shouldRetry_ListedOnly(error, E) == \E i \in 1..Len(E) : IsInstance(error.kind, E[i])

\* retry.js:67-72
shouldRetry(error, E) ==
    \/ Len(E) = 0
    \/ \E i \in 1..Len(E) : IsInstance(error.kind, E[i])

\* Mutant: the exponent is the attempt number, not the attempt number less one.
CappedDelay_ExponentAttempt(a, o) ==
    Min(IF o.backoff
            THEN o.retryInterval * Pow(o.backoffMultiplier, a)
            ELSE o.retryInterval,
        o.maxDelay)

\* retry.js:82-91, with attempt already incremented
CappedDelay(a, o) ==
    Min(IF o.backoff
            THEN o.retryInterval * Pow(o.backoffMultiplier, a - 1)
            ELSE o.retryInterval,
        o.maxDelay)

\* Mutant: the jitter is added without centring it on the delay.
Jittered_NotCentred(d, o, u) ==
    IF o.jitter > 0 THEN d + (d * o.jitter * u) \div 8 ELSE d

\* retry.js:94-97; u: the Math.random() draw, in quarters
Jittered(d, o, u) ==
    IF o.jitter > 0
        THEN d + (d * o.jitter * u) \div 8 - (d * o.jitter) \div 4
        ELSE d

\* retry.js:100: the time handed to setTimeout
SleepTime(a, o, u) == Max(0, Jittered(CappedDelay(a, o), o, u))

RandomDraws == {0, 1, 2, 3}

\* retry.js:45: the while condition, then the invocation of asyncFn (retry.js:51/57)
\* or the end of the function body (retry.js:103), which resolves to undefined.
LoopTop(a) ==
    IF LooseLE(a, opt.maxRetries)
        THEN /\ rpc' = "await"
             /\ calls' = calls + 1
             /\ outstanding' = outstanding + 1
             /\ result' = result
        ELSE /\ rpc' = "returned"
             /\ result' = Returned(Undefined)
             /\ UNCHANGED <<calls, outstanding>>

\* retry.js:60-100: the catch block, entered with the error of this attempt.
Catch(error) ==
    IF IsLastAttempt(attempt, opt) \/ ~shouldRetry(error, ErrorTypes.items)
        THEN /\ rpc' = "thrown"
             /\ result' = Thrown(error)
             /\ UNCHANGED <<attempt, delay, sleeps>>
        ELSE /\ attempt' = attempt + 1
             /\ \E u \in RandomDraws : delay' = SleepTime(attempt + 1, opt, u)
             /\ sleeps' = sleeps + 1
             /\ rpc' = "sleep"
             /\ result' = result

\* retry(asyncFn, ErrorTypes, options) is called: retry.js:15-45, up to the first
\* await.  calls, hist, sleeps and outstanding count what this call does.
Call(fn, E, options) ==
    /\ asyncFn' = fn
    /\ ErrorTypes' = E
    /\ opt' = Destructure(options)
    /\ attempt' = 0
    /\ hist' = <<>>
    /\ delay' = -1
    /\ sleeps' = 0
    /\ IF Validate(fn, E, Destructure(options)) # Undefined
        THEN /\ rpc' = "thrown"
             /\ result' = Validate(fn, E, Destructure(options))
             /\ calls' = 0
             /\ outstanding' = 0
        ELSE IF LooseLE(0, Destructure(options).maxRetries)
            THEN /\ rpc' = "await"
                 /\ calls' = 1
                 /\ outstanding' = 1
                 /\ result' = Undefined
            ELSE /\ rpc' = "returned"
                 /\ result' = Returned(Undefined)
                 /\ calls' = 0
                 /\ outstanding' = 0

\* The awaited invocation settles: retry.js:50-59 on success, the catch block on failure.
\* out: [ok |-> TRUE, v |-> value] or [ok |-> FALSE, kind |-> .., msg |-> ..]
Settle(out) ==
    /\ outstanding' = outstanding - 1
    /\ hist' = Append(hist, [ok |-> out.ok, kind |-> out.kind, by |-> "op"])
    /\ UNCHANGED <<asyncFn, ErrorTypes, opt, calls>>
    /\ IF out.ok
        THEN /\ rpc' = "returned"
             /\ result' = Returned(out.v)
             /\ UNCHANGED <<attempt, delay, sleeps>>
        ELSE Catch(Err(out.kind, out.msg, calls))

\* Mutant: the timeout option is ignored, no timer is set.
TimerFires_Ignored ==
    /\ FALSE
    /\ UNCHANGED <<rpc, asyncFn, ErrorTypes, opt, attempt, calls, hist, delay, sleeps,
                   outstanding, result>>

\* retry.js:52-54: the timer of Promise.race fires first; the invocation stays pending.
TimerFires ==
    /\ rpc = "await"
    /\ opt.timeout > 0
    /\ hist' = Append(hist, [ok |-> FALSE, kind |-> "Error", by |-> "timer"])
    /\ UNCHANGED <<asyncFn, ErrorTypes, opt, calls, outstanding>>
    /\ Catch(Err("Error", "Operation timed out", calls))

\* An invocation abandoned by a timeout settles; nobody awaits it.
LateSettle ==
    /\ outstanding > (IF rpc = "await" THEN 1 ELSE 0)
    /\ outstanding' = outstanding - 1
    /\ UNCHANGED <<rpc, asyncFn, ErrorTypes, opt, attempt, calls, hist, delay, sleeps, result>>

\* retry.js:100-102, 45: the suspension ends and the loop condition is evaluated again.
Wake ==
    /\ rpc = "sleep"
    /\ delay' = -1
    /\ UNCHANGED <<asyncFn, ErrorTypes, opt, attempt, hist, sleeps>>
    /\ LoopTop(attempt)

\* ------------------------------------------------------------ rules.js
\* A rate (quote): [id, carrier, rate, delivery_days].  rate is a decimal string
\* with two decimals, kept as its digits: "10.00" is <<1, 0, 0, 0>>.

\* rules.js:30: delivery_days<=2
MaxDeliveryDays == 2
\* rules.js:44: zone > 2
MaxUspsZone == 2
\* rules.js:46
ReservedCarrier == "USPS"

\* Mutant: the digits read without their place value (9.00 and 10.00 mixed up).
Number_DigitSum(s) == IF s = <<>> THEN 0 ELSE s[1] + s[Len(s)]

\* JSONata $number on a rate string: its numeric value (in cents).
RECURSIVE NumberOfDigits(_)
NumberOfDigits(s) ==
    IF s = <<>> THEN 0 ELSE 10 * NumberOfDigits(SubSeq(s, 1, Len(s) - 1)) + s[Len(s)]

Number(s) == NumberOfDigits(s)

\* Mutant: the eligibility test off by one day.
Eligible_Loose(q) == q.delivery_days <= MaxDeliveryDays + 1

\* rules.js:30: the predicate [delivery_days<=2]
Eligible(q) == q.delivery_days <= MaxDeliveryDays

\* rules.js:30: function($l, $r) {$number($l.rate) > $number($r.rate)}
Comparator(l, r) == Number(l.rate) > Number(r.rate)

\* JSONata: the result of a path step is a sequence; an empty sequence is
\* undefined and a sequence of one item is that item.
Array(items) == [t |-> "array", a |-> items]
Object(q) == [t |-> "object", o |-> q]
SequenceResult(items) ==
    IF Len(items) = 0 THEN Undefined
    ELSE IF Len(items) = 1 THEN Object(items[1])
    ELSE Array(items)

\* JSONata: an argument declared as an array (the signature of $sort is <af?:a>)
\* that is not an array is wrapped in one; undefined stays undefined.
ArrayArgument(x) == IF x.t = "object" THEN Array(<<x.o>>) ELSE x

\* JSONata $sort: a merge sort; the comparator returning true swaps the pair.
\* Mutant: a merge that lets the right item pass on a tie.
RECURSIVE Merge_TiesSwap(_, _)
Merge_TiesSwap(l, r) ==
    IF Len(l) = 0 THEN r
    ELSE IF Len(r) = 0 THEN l
    ELSE IF Number(l[1].rate) >= Number(r[1].rate)
        THEN <<r[1]>> \o Merge_TiesSwap(l, Tail(r))
        ELSE <<l[1]>> \o Merge_TiesSwap(Tail(l), r)

RECURSIVE Merge(_, _)
Merge(l, r) ==
    IF Len(l) = 0 THEN r
    ELSE IF Len(r) = 0 THEN l
    ELSE IF Comparator(l[1], r[1])
        THEN <<r[1]>> \o Merge(l, Tail(r))
        ELSE <<l[1]>> \o Merge(Tail(l), r)

RECURSIVE MSort(_)
MSort(array) ==
    IF Len(array) <= 1 THEN array
    ELSE Merge(MSort(SubSeq(array, 1, Len(array) \div 2)),
               MSort(SubSeq(array, Len(array) \div 2 + 1, Len(array))))

Sort(x) == IF x.t = "undefined" THEN Undefined ELSE Array(MSort(x.a))

\* rules.js:29-31: $[delivery_days<=2] ~> $sort(...), evaluated on rates
ratesFor2DaysOrLess(rates) ==
    IF rates.t = "undefined" THEN Undefined
    ELSE Sort(ArrayArgument(SequenceResult(SelectSeq(rates.a, Eligible))))

\* Mutant: USPS excluded whatever the zone.
ExcludesUsps_Always(zone) == TRUE

\* rules.js:44
ExcludesUsps(zone) == zone > MaxUspsZone

\* rules.js:45-47
NotReserved(q) == q.carrier # ReservedCarrier
nonUSPSRates(sorted) == SelectSeq(sorted, NotReserved)

\* x?.[0]?.id
FirstId(items) == IF Len(items) = 0 THEN Undefined ELSE items[1].id

\* rules.js:44-54
chosenRateOf(sorted, zone) ==
    IF ExcludesUsps(zone) THEN FirstId(nonUSPSRates(sorted)) ELSE FirstId(sorted)

NoSuitableRates(msg) == [ok |-> FALSE, kind |-> "NoSuitableRatesError", msg |-> msg, v |-> Undefined]

\* rules.js:11-65: the default export, on a shipment [id, rates, usps_zone]; what
\* the promise settles with.
rules(shipment) ==
    IF shipment.rates.t = "array" /\ Len(shipment.rates.a) = 0
        THEN NoSuitableRates("Easypost shipment returned zero rates")
    ELSE IF ratesFor2DaysOrLess(shipment.rates) = Undefined
        THEN NoSuitableRates("No rates for 2 days or less")
    ELSE IF chosenRateOf(ratesFor2DaysOrLess(shipment.rates).a, shipment.usps_zone) = Undefined
        THEN NoSuitableRates("chosenRate: undefined")
    ELSE [ok |-> TRUE, kind |-> "none", msg |-> "none",
          v |-> chosenRateOf(ratesFor2DaysOrLess(shipment.rates).a, shipment.usps_zone)]

\* ------------------------------------------- callers of retry(): inputs
ErrorKinds == {"NetworkError", "TimeoutError"}

ErrorTypesArgs ==
    { [isArray |-> FALSE, items |-> <<>>],
      [isArray |-> TRUE, items |-> <<>>],
      [isArray |-> TRUE, items |-> <<"NetworkError">>],
      [isArray |-> TRUE, items |-> <<"Error">>] }

MaxRetriesArgs ==
    {NoOpt} \cup { [maxRetries |-> Num(n)] : n \in -1..MaxN }
        \cup { [maxRetries |-> Str(MaxN)], [maxRetries |-> NumHalf(1)],
               [maxRetries |-> StrNaN] }

OptionsArgs ==
    { b @@ m @@ r @@ n @@ j @@ d @@ t :
        b \in {NoOpt, [backoff |-> FALSE]},
        m \in {NoOpt, [backoffMultiplier |-> 3]},
        r \in {NoOpt, [retryInterval |-> 8], [retryInterval |-> -8]},
        n \in MaxRetriesArgs,
        j \in {NoOpt, [jitter |-> 0], [jitter |-> 1], [jitter |-> 4], [jitter |-> -1]},
        d \in {NoOpt, [maxDelay |-> 16]},
        t \in {NoOpt, [timeout |-> 40]} }

\* What an invocation of a test operation settles with; the value returned
\* carries the number of the invocation that produced it.
OpOutcomes ==
    { [ok |-> TRUE, kind |-> "none", msg |-> "none", v |-> Value("Success!", calls)] }
    \cup { [ok |-> FALSE, kind |-> k, msg |-> "failed", v |-> Undefined] : k \in ErrorKinds }

\* --------------------------------------------------- rules(): inputs
RateStrings == {<<9, 0, 0>>, <<1, 0, 0, 0>>}

Rates ==
    [carrier : {"USPS", "UPS"}, rate : RateStrings, delivery_days : {1, 2, 3}]

Zones == {1, 2, 3}

RECURSIVE SeqsUpTo(_, _)
SeqsUpTo(S, n) ==
    IF n = 0 THEN {<<>>}
    ELSE SeqsUpTo(S, n - 1)
            \cup { Append(q, x) : q \in { r \in SeqsUpTo(S, n - 1) : Len(r) = n - 1 }, x \in S }

\* The id EasyPost gives a rate: unique to the shipment and the place in its list.
RateId(shipment, i) == [t |-> "string", shipment |-> shipment, i |-> i]

WithIds(shipment, list) ==
    [i \in 1..Len(list) |->
        [id |-> RateId(shipment, i), carrier |-> list[i].carrier,
         rate |-> list[i].rate, delivery_days |-> list[i].delivery_days]]

\* A shipment as createShipment returns it.
Shipment(id, list, zone) == [id |-> id, rates |-> Array(WithIds(id, list)), usps_zone |-> zone]

\* ------------------------------------------------------------ index.js
\* index.js:144-149: the arguments of retry(); Bun.env values are strings or absent.
HandlerErrorTypes == [isArray |-> TRUE, items |-> <<"NoSuitableRatesError">>]
HandlerOptions(e) == e.SHIPPING_RATE_SEARCH_RETRIES @@ e.SHIPPING_RATE_SEARCH_RETRY_INTERVAL
                        @@ [backoff |-> FALSE]

\* index.js:135-142: the operation from the check of the rates to its end.
ClosureOutcome(response) ==
    IF response.rates = Undefined
        THEN [ok |-> FALSE, kind |-> "Error",
              msg |-> "Shipment response from Easypost returned no rates", v |-> Undefined]
        ELSE rules(response)

\* Mutant: only the first response is stored in shipmentResponse.
Operation_KeepFirst(old, response) ==
    [shipmentResponse |-> IF old = Undefined THEN response ELSE old,
     out |-> ClosureOutcome(response)]

\* index.js:125-143: the operation handed to retry(), from the moment createShipment
\* resolves with response: the new value of shipmentResponse and what the
\* operation settles with.  old: shipmentResponse before.
Operation(old, response) ==
    [shipmentResponse |-> response, out |-> ClosureOutcome(response)]

\* chosenRate.id, where chosenRate is the string rules() returned: a string has no id.
IdOf(x) == Undefined

\* Mutant: the mail always says that no rates are available.
RejectedRates_None(response) == Array(<<>>)

\* index.js:166-173: the rates listed in the mail
RejectedRates(response) ==
    IF response = Undefined \/ response.rates = Undefined
        THEN Array(<<>>)
        ELSE response.rates

Production == env.NODE_ENV = "production"
SendLive == env.SEND_LIVE_EMAILS = "true"

\* Mutant: the mail goes out once to the shop owner and once to the test address.
NotifyShopOwner_Twice(sent, f, response, e) ==
    IF SendLive
        THEN sent \o << [fo |-> f, rates |-> RejectedRates(response), error |-> e],
                        [fo |-> f, rates |-> RejectedRates(response), error |-> e] >>
        ELSE sent

\* index.js:153-190: the mails sent so far, after the "no suitable shipping rate"
\* mail for fulfillment order f has been composed and, with live mails on, sent.
NotifyShopOwner(sent, f, response, e) ==
    IF SendLive
        THEN Append(sent, [fo |-> f, rates |-> RejectedRates(response), error |-> e])
        ELSE sent

\* index.js:44-57: the order is fetched.
FetchOrder ==
    /\ hpc = "start"
    /\ hpc' = "loop"
    /\ fo' = 1
    /\ UNCHANGED <<webVars, concVars, dupVars, retryVars, rulesVars, env, fulfillmentOrders, chosenRate, shipmentResponse,
                   notifications, buys, slipMails, herr>>

\* index.js:58-124: the next fulfillment order, up to the call of retry(), whose
\* first invocation of the operation calls createShipment.
NextFulfillmentOrder ==
    /\ hpc = "loop"
    /\ UNCHANGED <<webVars, concVars, dupVars, rulesVars, env, fulfillmentOrders, notifications, buys, slipMails, herr>>
    /\ IF fo > Len(fulfillmentOrders)
        THEN /\ hpc' = "done"
             /\ UNCHANGED <<retryVars, fo, chosenRate, shipmentResponse>>
        ELSE IF Production /\ fulfillmentOrders[fo] = "CLOSED"
            THEN /\ fo' = fo + 1
                 /\ UNCHANGED <<retryVars, hpc, chosenRate, shipmentResponse>>
            ELSE /\ chosenRate' = Undefined
                 /\ shipmentResponse' = Undefined
                 /\ Call("function", HandlerErrorTypes, HandlerOptions(env))
                 /\ hpc' = "retry"
                 /\ fo' = fo

\* index.js:127: createShipment rejects; the operation rejects with its error.
QuoteFails ==
    /\ hpc = "retry" /\ rpc = "await"
    /\ Settle([ok |-> FALSE, kind |-> "Error", msg |-> "createShipment failed", v |-> Undefined])
    /\ UNCHANGED <<rulesVars, handlerVars>>

\* index.js:127-142: createShipment resolves and the operation runs to its end.
QuoteArrives(response) ==
    /\ shipmentResponse' = Operation(shipmentResponse, response).shipmentResponse
    /\ Settle(Operation(shipmentResponse, response).out)
    /\ UNCHANGED <<webVars, concVars, dupVars, rulesVars, env, hpc, fulfillmentOrders, fo, chosenRate,
                   notifications, buys, slipMails, herr>>

\* The suspension of retry() ends inside the handler: the next createShipment call.
HandlerWake ==
    /\ hpc = "retry"
    /\ Wake
    /\ UNCHANGED <<rulesVars, handlerVars>>

\* index.js:124, 151-195: retry() has settled.
RetrySettled ==
    /\ hpc = "retry" /\ rpc \in {"returned", "thrown"}
    /\ UNCHANGED <<webVars, concVars, dupVars, retryVars, rulesVars, env, fulfillmentOrders, fo, shipmentResponse,
                   buys, slipMails>>
    /\ IF rpc = "returned"
        THEN /\ chosenRate' = result.v
             /\ hpc' = "buy"
             /\ UNCHANGED <<notifications, herr>>
        ELSE IF IsInstance(result.e.kind, "NoSuitableRatesError")
            THEN /\ notifications' =
                        NotifyShopOwner(notifications, fo, shipmentResponse, result.e)
                 /\ herr' = result.e
                 /\ hpc' = "rejected"
                 /\ UNCHANGED chosenRate
            ELSE /\ hpc' = "buy"
                 /\ UNCHANGED <<chosenRate, notifications, herr>>

\* index.js:198-201: the arguments are evaluated, then buyShipment is called and
\* resolves or rejects.
BuyShipment ==
    /\ hpc = "buy"
    /\ UNCHANGED <<webVars, concVars, dupVars, retryVars, rulesVars, env, fulfillmentOrders, fo, chosenRate,
                   shipmentResponse, notifications, slipMails>>
    /\ IF shipmentResponse = Undefined \/ chosenRate = Undefined
        THEN /\ herr' = Err("TypeError", "undefined is not an object", 0)
             /\ hpc' = "rejected"
             /\ UNCHANGED buys
        ELSE /\ buys' = Append(buys, [fo |-> fo, shipment |-> shipmentResponse.id,
                                      rate |-> IdOf(chosenRate)])
             /\ \/ /\ hpc' = "fulfil"
                   /\ UNCHANGED herr
                \/ /\ hpc' = "rejected"
                   /\ herr' = Err("Error", "buyShipment failed", 0)

\* index.js:207-321: the fulfillment, the packing slip and the mail; a packing slip
\* that cannot be generated ends the handler.
FinishFulfillmentOrder ==
    /\ hpc = "fulfil"
    /\ UNCHANGED <<webVars, concVars, dupVars, retryVars, rulesVars, env, fulfillmentOrders, chosenRate, shipmentResponse,
                   notifications, buys, herr>>
    /\ \/ /\ hpc' = "done"
          /\ UNCHANGED <<fo, slipMails>>
       \/ /\ hpc' = "loop"
          /\ fo' = fo + 1
          /\ slipMails' = IF SendLive THEN slipMails + 1 ELSE slipMails

\* --------------------------------------------------- index.js: inputs
Envs ==
    [NODE_ENV : {"production", "development"},
     SEND_LIVE_EMAILS : {"true", "false"},
     SHIPPING_RATE_SEARCH_RETRIES :
        {NoOpt} \cup { [maxRetries |-> Str(n)] : n \in 0..MaxEnvRetries },
     SHIPPING_RATE_SEARCH_RETRY_INTERVAL : {NoOpt, [retryInterval |-> 8]}]

UspsCheap == [carrier |-> "USPS", rate |-> <<9, 0, 0>>, delivery_days |-> 2]
UpsDear == [carrier |-> "UPS", rate |-> <<1, 0, 0, 0>>, delivery_days |-> 2]
UpsSlow == [carrier |-> "UPS", rate |-> <<9, 0, 0>>, delivery_days |-> 3]

\* The lists of rates createShipment answers with.
ResponseRateLists ==
    { <<>>, <<UspsCheap>>, <<UpsSlow>>, <<UspsCheap, UpsDear>>, <<UpsDear, UspsCheap>> }

\* The id of the shipment createShipment creates at its n-th call for
\* fulfillment order f: every call creates a new shipment.
ShipmentId(f, n) == [fo |-> f, n |-> n]

\* The responses createShipment can give to that call: a shipment with a list of
\* rates, or one without the rates property.
Responses(f, n) ==
    { Shipment(ShipmentId(f, n), list, zone) : list \in ResponseRateLists, zone \in {2, 3} }
        \cup { [id |-> ShipmentId(f, n), rates |-> Undefined, usps_zone |-> 2] }

FulfillmentOrderLists ==
    { l \in SeqsUpTo({"OPEN", "CLOSED"}, MaxFulfillmentOrders) : Len(l) > 0 }

\* ------------------------------------- index.js: the webhook route
\* A string, by its length in bytes and its content; null for a header not sent.
Null == [t |-> "null"]
String(len, text) == [t |-> "string", len |-> len, text |-> text]

\* The base64 text of a SHA-256 digest is 44 characters long.
Base64DigestLength == 44

\* webhook-validation.js:6: the base64 HMAC-SHA256 of the body under the secret;
\* different bodies or secrets give different digests.
Digest(body, secret) == String(Base64DigestLength, <<"hmac-sha256", secret, body>>)

\* node:crypto timingSafeEqual: throws when the byte lengths differ.
timingSafeEqual(a, b) ==
    IF a.len # b.len
        THEN Thrown(Err("RangeError", "Input buffers must have the same byte length", 0))
        ELSE Returned(a = b)

\* webhook-validation.js:4-9
validateShopifyWebhookHmac(hmacHeader, bodyBuffer, webhookSecret) ==
    timingSafeEqual(Digest(bodyBuffer, webhookSecret), hmacHeader)

\* Bun.env.SHOPIFY_WEBHOOK_SECRET
WebhookSecret == "secret"

Bodies == {"order 1", "order 2"}

\* X-Shopify-Hmac-SHA256 as a sender may set it: not at all, empty, the digest of
\* the body, the digest of another body or under another secret, a short text,
\* and the digest followed by one more character.
HmacHeaders(body) ==
    { Null,
      String(0, <<>>),
      Digest(body, WebhookSecret),
      Digest(CHOOSE b \in Bodies : b # body, WebhookSecret),
      Digest(body, "guess"),
      String(3, <<"abc">>),
      String(Base64DigestLength + 1, <<"hmac-sha256", WebhookSecret, body, "=">>) }

Requests == UNION { { [hmac |-> h, body |-> b] : h \in HmacHeaders(b) } : b \in Bodies }

NoRequest == [hmac |-> Null, body |-> "none"]

\* index.js:340: !hmacHeader
Falsy(h) == h = Null \/ h.len = 0

\* index.js:330-368: the POST handler of the route, up to its response; a handler
\* that throws is answered 500 by Bun.  An accepted request calls
\* purchaseShippingLabelsHandler without awaiting it.
RouteOutcome(req) ==
    IF Production /\ Falsy(req.hmac) THEN [status |-> 401, start |-> FALSE]
    ELSE IF Production
            /\ validateShopifyWebhookHmac(req.hmac, req.body, WebhookSecret).t = "throw"
        THEN [status |-> 500, start |-> FALSE]
    ELSE IF Production /\ ~validateShopifyWebhookHmac(req.hmac, req.body, WebhookSecret).v
        THEN [status |-> 401, start |-> FALSE]
    ELSE [status |-> 200, start |-> TRUE]

Post(req) ==
    /\ request' = req
    /\ status' = RouteOutcome(req).status
    /\ started' = IF RouteOutcome(req).start THEN started + 1 ELSE started
    /\ hpc' = IF RouteOutcome(req).start THEN "start" ELSE hpc
    /\ UNCHANGED <<concVars, dupVars, retryVars, rulesVars, env, fulfillmentOrders, fo,
                   chosenRate, shipmentResponse, notifications, buys, slipMails, herr>>

\* ------------------------------------------------- specification: retry()
RulesIdle == easypostShipment = Undefined /\ rulesResult = Undefined

WebIdle == request = NoRequest /\ status = 0 /\ started = 0

\* The locals of a retry() call that has not been made yet.
IdleCall ==
    [rpc |-> "idle", asyncFn |-> "function", ErrorTypes |-> [isArray |-> TRUE, items |-> <<>>],
     opt |-> Destructure(NoOpt), attempt |-> 0, calls |-> 0, hist |-> <<>>, delay |-> -1,
     sleeps |-> 0, outstanding |-> 0, result |-> Undefined]

ConcurrentIdle == other = IdleCall /\ focus = 1

NoRun == [pc |-> "none", order |-> <<>>, f |-> 0]

DuplicateIdle == shop = <<>> /\ runs = <<NoRun, NoRun>> /\ labels = <<>>

HandlerIdle ==
    /\ env = [NODE_ENV |-> "development", SEND_LIVE_EMAILS |-> "false",
              SHIPPING_RATE_SEARCH_RETRIES |-> NoOpt,
              SHIPPING_RATE_SEARCH_RETRY_INTERVAL |-> NoOpt]
    /\ hpc = "idle"
    /\ fulfillmentOrders = <<>>
    /\ fo = 0
    /\ chosenRate = Undefined
    /\ shipmentResponse = Undefined
    /\ notifications = <<>>
    /\ buys = <<>>
    /\ slipMails = 0
    /\ herr = Undefined
    /\ WebIdle /\ ConcurrentIdle /\ DuplicateIdle

RetryIdle ==
    /\ rpc = "idle"
    /\ asyncFn = "function"
    /\ ErrorTypes = [isArray |-> TRUE, items |-> <<>>]
    /\ opt = Destructure(NoOpt)
    /\ attempt = 0
    /\ calls = 0
    /\ hist = <<>>
    /\ delay = -1
    /\ sleeps = 0
    /\ outstanding = 0
    /\ result = Undefined

RetryCall ==
    /\ rpc = "idle"
    /\ \E f \in {"function", "string"}, E \in ErrorTypesArgs, o \in OptionsArgs : Call(f, E, o)
    /\ UNCHANGED <<rulesVars, handlerVars>>

OpSettles ==
    /\ rpc = "await"
    /\ \E out \in OpOutcomes : Settle(out)
    /\ UNCHANGED <<rulesVars, handlerVars>>

OpTimesOut == TimerFires /\ UNCHANGED <<rulesVars, handlerVars>>

AbandonedOpSettles == LateSettle /\ UNCHANGED <<rulesVars, handlerVars>>

RetryWakes == Wake /\ UNCHANGED <<rulesVars, handlerVars>>

Init == RetryIdle /\ RulesIdle /\ HandlerIdle

Next == RetryCall \/ OpSettles \/ OpTimesOut \/ AbandonedOpSettles \/ RetryWakes

Spec == Init /\ [][Next]_vars

\* ------------------------------------- specification: retry(), with fairness
\* A timer that was set fires (RetryWakes, OpTimesOut).  An invocation of asyncFn
\* settles in the end when no timeout is set; with a timeout it may never settle.
LiveOptionsArgs ==
    { n @@ t @@ [retryInterval |-> 8, jitter |-> 0] :
        n \in MaxRetriesArgs, t \in {NoOpt, [timeout |-> 40]} }

LiveCall ==
    /\ rpc = "idle"
    /\ \E E \in ErrorTypesArgs, o \in LiveOptionsArgs : Call("function", E, o)
    /\ UNCHANGED <<rulesVars, handlerVars>>

OpSettlesUntimed == opt.timeout = 0 /\ OpSettles

LiveNext == LiveCall \/ OpSettles \/ OpTimesOut \/ AbandonedOpSettles \/ RetryWakes

LiveSpec ==
    /\ Init /\ [][LiveNext]_vars
    /\ WF_vars(RetryWakes) /\ WF_vars(OpTimesOut) /\ WF_vars(OpSettlesUntimed)

\* ------------------------------- specification: two concurrent retry() calls
\* Two calls of retry() are in progress on the one event loop; every step runs to
\* the next await of the call it belongs to.  The retry variables hold the locals
\* of the call that runs next, other those of the call that waits.
Saved ==
    [rpc |-> rpc, asyncFn |-> asyncFn, ErrorTypes |-> ErrorTypes, opt |-> opt,
     attempt |-> attempt, calls |-> calls, hist |-> hist, delay |-> delay,
     sleeps |-> sleeps, outstanding |-> outstanding, result |-> result]

\* Mutant: attempt is declared at module level, one counter for every call.
AttemptOf_Shared(saved, current) == current

\* retry.js:43: let attempt, declared inside retry(): a call that resumes finds
\* its own counter.  saved: the locals it left; current: the other call's counter.
AttemptOf(saved, current) == saved.attempt

\* The event loop turns to the other call.
Switch ==
    /\ focus' = 3 - focus
    /\ other' = Saved
    /\ rpc' = other.rpc
    /\ asyncFn' = other.asyncFn
    /\ ErrorTypes' = other.ErrorTypes
    /\ opt' = other.opt
    /\ attempt' = AttemptOf(other, attempt)
    /\ calls' = other.calls
    /\ hist' = other.hist
    /\ delay' = other.delay
    /\ sleeps' = other.sleeps
    /\ outstanding' = other.outstanding
    /\ result' = other.result
    /\ UNCHANGED <<rulesVars, env, hpc, fulfillmentOrders, fo, chosenRate, shipmentResponse,
                   notifications, buys, slipMails, herr, webVars, dupVars>>

ConcurrentOptionsArgs ==
    { [maxRetries |-> Num(n), retryInterval |-> 8, jitter |-> 0] : n \in 0..MaxN }

ConcurrentCall ==
    /\ rpc = "idle"
    /\ \E E \in { e \in ErrorTypesArgs : e.isArray }, o \in ConcurrentOptionsArgs :
            Call("function", E, o)
    /\ UNCHANGED <<rulesVars, handlerVars>>

ConcurrentNext == ConcurrentCall \/ OpSettles \/ RetryWakes \/ Switch

ConcurrentSpec == Init /\ [][ConcurrentNext]_vars

\* ----------------------- specification: duplicate deliveries of one webhook
\* Shopify delivers the same order-paid webhook twice; the route starts a run of
\* purchaseShippingLabelsHandler for each delivery without awaiting it
\* (index.js:357), so the two runs interleave at their awaits.  The quoting of a
\* run is reduced to its outcome.
Runs == {1, 2}

notDupVars == <<retryVars, rulesVars, env, hpc, fulfillmentOrders, fo, chosenRate,
                shipmentResponse, notifications, buys, slipMails, herr, webVars, concVars>>

\* index.js:357: a delivery is accepted and its run starts.
Delivered(r) ==
    /\ runs[r].pc = "none"
    /\ runs' = [runs EXCEPT ![r].pc = "fetch"]
    /\ UNCHANGED <<notDupVars, shop, labels>>

\* index.js:44-57: the order is fetched, with the status each fulfillment order
\* has at Shopify at that moment.
FetchedOrder(r) ==
    /\ runs[r].pc = "fetch"
    /\ runs' = [runs EXCEPT ![r] = [pc |-> "loop", order |-> shop, f |-> 1]]
    /\ UNCHANGED <<notDupVars, shop, labels>>

\* index.js:58-66: the next fulfillment order of the order fetched; in production
\* one fetched as CLOSED is skipped.
NextOrder(r) ==
    /\ runs[r].pc = "loop"
    /\ runs' = [runs EXCEPT ![r] =
                    IF runs[r].f > Len(runs[r].order) THEN [@ EXCEPT !.pc = "done"]
                    ELSE IF Production /\ runs[r].order[runs[r].f] = "CLOSED"
                        THEN [@ EXCEPT !.f = @ + 1]
                    ELSE [@ EXCEPT !.pc = "quote"]]
    /\ UNCHANGED <<notDupVars, shop, labels>>

\* index.js:124-195: retry() returns a rate, or the run rejects.
Quoted(r) ==
    /\ runs[r].pc = "quote"
    /\ \E pc \in {"buy", "rejected"} : runs' = [runs EXCEPT ![r].pc = pc]
    /\ UNCHANGED <<notDupVars, shop, labels>>

\* index.js:198-201: buyShipment resolves, a label is bought; or it rejects.
LabelBought(r) ==
    /\ runs[r].pc = "buy"
    /\ \/ /\ labels' = Append(labels, [run |-> r, fo |-> runs[r].f])
          /\ runs' = [runs EXCEPT ![r].pc = "fulfil"]
       \/ /\ runs' = [runs EXCEPT ![r].pc = "rejected"]
          /\ UNCHANGED labels
    /\ UNCHANGED <<notDupVars, shop>>

\* index.js:211-266: in production the fulfillment is created, which closes the
\* fulfillment order at Shopify; then the packing slip, whose failure ends the run.
Fulfilled(r) ==
    /\ runs[r].pc = "fulfil"
    /\ shop' = IF Production THEN [shop EXCEPT ![runs[r].f] = "CLOSED"] ELSE shop
    /\ \E pc \in {"loop", "done"} : runs' = [runs EXCEPT ![r] = [@ EXCEPT !.pc = pc, !.f = @ + 1]]
    /\ UNCHANGED <<notDupVars, labels>>

DuplicateInit ==
    /\ RetryIdle /\ RulesIdle /\ WebIdle /\ ConcurrentIdle
    /\ env \in { e \in Envs : /\ e.SEND_LIVE_EMAILS = "false"
                              /\ e.SHIPPING_RATE_SEARCH_RETRIES = NoOpt
                              /\ e.SHIPPING_RATE_SEARCH_RETRY_INTERVAL = NoOpt }
    /\ hpc = "idle"
    /\ fulfillmentOrders = <<>>
    /\ fo = 0
    /\ chosenRate = Undefined
    /\ shipmentResponse = Undefined
    /\ notifications = <<>>
    /\ buys = <<>>
    /\ slipMails = 0
    /\ herr = Undefined
    /\ shop \in FulfillmentOrderLists
    /\ runs = <<NoRun, NoRun>>
    /\ labels = <<>>

WebhookDelivered == \E r \in Runs : Delivered(r)
RunFetchesOrder == \E r \in Runs : FetchedOrder(r)
RunTakesNextOrder == \E r \in Runs : NextOrder(r)
RunQuotes == \E r \in Runs : Quoted(r)
RunBuysLabel == \E r \in Runs : LabelBought(r)
RunFulfils == \E r \in Runs : Fulfilled(r)

DuplicateNext ==
    \/ WebhookDelivered
    \/ RunFetchesOrder
    \/ RunTakesNextOrder
    \/ RunQuotes
    \/ RunBuysLabel
    \/ RunFulfils

DuplicateSpec == DuplicateInit /\ [][DuplicateNext]_vars

\* ------------------------------------------------- specification: rules()
RulesInit ==
    /\ RetryIdle /\ HandlerIdle
    /\ easypostShipment \in
        { Shipment(ShipmentId(1, 1), list, zone) :
            list \in SeqsUpTo(Rates, MaxRates), zone \in Zones }
    /\ rulesResult = Undefined

RulesCall ==
    /\ rulesResult = Undefined
    /\ rulesResult' = rules(easypostShipment)
    /\ UNCHANGED <<retryVars, handlerVars, easypostShipment>>

RulesNext == RulesCall

RulesSpec == RulesInit /\ [][RulesNext]_vars

\* ------------------------------- specification: purchaseShippingLabelsHandler
HandlerInit ==
    /\ RetryIdle /\ RulesIdle
    /\ env \in Envs
    /\ hpc = "start"
    /\ fulfillmentOrders \in FulfillmentOrderLists
    /\ fo = 0
    /\ chosenRate = Undefined
    /\ shipmentResponse = Undefined
    /\ notifications = <<>>
    /\ buys = <<>>
    /\ slipMails = 0
    /\ herr = Undefined
    /\ WebIdle /\ ConcurrentIdle /\ DuplicateIdle

QuoteSettles ==
    /\ hpc = "retry" /\ rpc = "await"
    /\ \E response \in Responses(fo, calls) : QuoteArrives(response)

HandlerNext ==
    \/ FetchOrder
    \/ NextFulfillmentOrder
    \/ QuoteFails
    \/ QuoteSettles
    \/ HandlerWake
    \/ RetrySettled
    \/ BuyShipment
    \/ FinishFulfillmentOrder

HandlerSpec == HandlerInit /\ [][HandlerNext]_vars

\* --------------------------------------- specification: the webhook route
\* One request arrives; the handler it starts runs as in HandlerSpec.
WebhookEnvs ==
    { e \in Envs : /\ e.SEND_LIVE_EMAILS = "true"
                   /\ e.SHIPPING_RATE_SEARCH_RETRIES = [maxRetries |-> Str(0)]
                   /\ e.SHIPPING_RATE_SEARCH_RETRY_INTERVAL = NoOpt }

WebhookInit ==
    /\ RetryIdle /\ RulesIdle /\ WebIdle /\ ConcurrentIdle /\ DuplicateIdle
    /\ env \in WebhookEnvs
    /\ hpc = "idle"
    /\ fulfillmentOrders \in { <<"OPEN">>, <<"CLOSED">> }
    /\ fo = 0
    /\ chosenRate = Undefined
    /\ shipmentResponse = Undefined
    /\ notifications = <<>>
    /\ buys = <<>>
    /\ slipMails = 0
    /\ herr = Undefined

RequestArrives ==
    /\ status = 0
    /\ \E req \in Requests : Post(req)

WebhookNext == RequestArrives \/ HandlerNext

WebhookSpec == WebhookInit /\ [][WebhookNext]_vars

\* ------------------------------------------------------ claims: retry()
Completed == rpc \in {"returned", "thrown"}

\* retry() threw from its validation, before the loop.
ConfigRejected == rpc = "thrown" /\ result.e.seq = 0

\* maxRetries is a whole number n >= 0, given as a number.
WholeNumberRetries ==
    /\ opt.maxRetries.t = "number" /\ ~opt.maxRetries.nan /\ ~opt.maxRetries.frac
    /\ opt.maxRetries.v >= 0

\* The kinds the caller listed (an empty list lets every kind be retried).  An
\* error is of its own kind and of every kind its class extends, here Error.
ListedKinds == { ErrorTypes.items[i] : i \in 1..Len(ErrorTypes.items) }
KindsOf(k) == {k, "Error"}
Listed(k) == KindsOf(k) \cap ListedKinds # {}
RetryableKind(k) == ListedKinds = {} \/ Listed(k)

\* Attempt i ended with the operation itself failing with a retryable kind.
FailedRetryable(i) == hist[i].by = "op" /\ ~hist[i].ok /\ RetryableKind(hist[i].kind)

\* C1: with maxRetries = n, an operation that fails on every invocation with a
\* retryable kind is invoked exactly n+1 times, and retry() then throws the error
\* of the last invocation unchanged.
C1_ExhaustionInvokesNPlusOne ==
    (/\ Completed /\ ~ConfigRejected /\ WholeNumberRetries
     /\ \A i \in 1..Len(hist) : FailedRetryable(i))
    => /\ calls = opt.maxRetries.v + 1
       /\ Len(hist) = calls
       /\ result = Thrown(Err(hist[calls].kind, "failed", calls))

C1_Witness ==
    /\ rpc = "thrown" /\ opt.maxRetries = Num(2) /\ calls = 3
    /\ ErrorTypes.items = <<"NetworkError">>
    /\ \A i \in 1..Len(hist) : FailedRetryable(i)
    /\ result.e.seq = 3

\* C2: with a non-empty list of retryable kinds, an operation that always fails
\* with an error of no listed kind is invoked exactly once, whatever maxRetries is
\* (any value that converts to a number), and retry() throws that error.
C2_NonRetryableInvokedOnce ==
    (/\ Completed /\ ~ConfigRejected /\ ~opt.maxRetries.nan
     /\ ListedKinds # {}
     /\ \A i \in 1..Len(hist) :
            hist[i].by = "op" /\ ~hist[i].ok /\ ~Listed(hist[i].kind))
    => /\ calls = 1
       /\ hist = <<[ok |-> FALSE, kind |-> hist[1].kind, by |-> "op"]>>
       /\ result = Thrown(Err(hist[1].kind, "failed", 1))
       /\ sleeps = 0

C2_Witness ==
    /\ rpc = "thrown" /\ opt.maxRetries = Num(2) /\ calls = 1
    /\ ErrorTypes.items = <<"NetworkError">>
    /\ hist = <<[ok |-> FALSE, kind |-> "TimeoutError", by |-> "op"]>>

\* C3: an operation that fails with retryable errors on its first k-1 invocations
\* and succeeds on invocation k <= maxRetries+1 is invoked exactly k times and the
\* value of invocation k is returned; retry() does not give up while such a k is
\* still ahead, and invokes nothing after returning.
C3_SuccessOnAttemptK ==
    (/\ Completed /\ ~ConfigRejected /\ ~opt.maxRetries.nan
     /\ \A i \in 1..(Len(hist) - 1) : FailedRetryable(i))
    => /\ (Len(hist) > 0 /\ hist[Len(hist)].ok)
            => /\ calls = Len(hist)
               /\ calls <= opt.maxRetries.v + 1
               /\ result = Returned(Value("Success!", calls))
               /\ rpc = "returned"
       /\ (Len(hist) > 0 /\ FailedRetryable(Len(hist)))
            => calls >= opt.maxRetries.v + 1

C3_Witness ==
    /\ rpc = "returned" /\ calls = 3 /\ opt.maxRetries = Num(2)
    /\ hist[1].kind = "NetworkError" /\ hist[2].kind = "TimeoutError" /\ hist[3].ok
    /\ result = Returned(Value("Success!", 3))
    /\ ~opt.backoff

\* C10: a call with a non-callable operation, a retryable set that is not an
\* array, jitter outside [0,1], negative maxRetries or negative retryInterval
\* throws a TypeError or RangeError with no invocation and no suspension.
InvalidCall ==
    \/ asyncFn # "function"
    \/ ~ErrorTypes.isArray
    \/ opt.jitter < 0
    \/ opt.jitter > 2
    \/ (~opt.maxRetries.nan /\ opt.maxRetries.v < 0)
    \/ opt.retryInterval < 0

C10_InvalidCallRejected ==
    (rpc # "idle" /\ InvalidCall)
    => /\ rpc = "thrown"
       /\ result.e.kind \in {"TypeError", "RangeError"}
       /\ calls = 0 /\ hist = <<>> /\ sleeps = 0 /\ outstanding = 0

C10_Witness ==
    /\ rpc = "thrown" /\ asyncFn = "function" /\ ErrorTypes.isArray
    /\ opt.jitter = 4 /\ opt.maxRetries = Num(2) /\ opt.retryInterval = 8
    /\ result = Thrown(Err("RangeError", "jitter must be between 0 and 1.0", 0))
    /\ calls = 0

\* C11: with an empty list of retryable kinds every error is retried: an operation
\* that fails, with whatever error, on its first k-1 invocations and succeeds on
\* invocation k <= maxRetries+1 is invoked k times and its value returned; no
\* error is thrown before invocation maxRetries+1 has failed.
EmptySet == ErrorTypes.isArray /\ ErrorTypes.items = <<>>

C11_EmptySetRetriesAll ==
    (Completed /\ ~ConfigRejected /\ EmptySet /\ ~opt.maxRetries.nan)
    => /\ (Len(hist) > 0 /\ hist[Len(hist)].ok)
            => /\ rpc = "returned"
               /\ calls = Len(hist)
               /\ calls <= opt.maxRetries.v + 1
               /\ result = Returned(Value("Success!", calls))
       /\ rpc = "thrown"
            => /\ calls = opt.maxRetries.v + 1
               /\ \A i \in 1..Len(hist) : ~hist[i].ok

C11_Witness ==
    /\ rpc = "returned" /\ EmptySet /\ opt.maxRetries = Num(2)
    /\ Len(hist) = 3
    /\ hist[1] = [ok |-> FALSE, kind |-> "TimeoutError", by |-> "op"]
    /\ hist[2] = [ok |-> FALSE, kind |-> "NetworkError", by |-> "op"]
    /\ hist[3].ok
    /\ result = Returned(Value("Success!", 3))

\* C12: every delay retry() suspends for is at most maxDelay.
C12_DelayAtMostMaxDelay == rpc = "sleep" => delay <= opt.maxDelay

\* The run that departs from C12: no jitter option was passed beyond the default,
\* the delay was capped at maxDelay and the jitter then raised it above the cap.
C12_Divergence ==
    /\ rpc = "sleep" /\ opt.jitter = DefaultJitter
    /\ opt.maxDelay = 16 /\ opt.retryInterval = 8 /\ opt.backoff
    /\ delay = 20

\* r multiplied k times by m.
RECURSIVE Times(_, _, _)
Times(r, m, k) == IF k = 0 THEN r ELSE Times(r * m, m, k - 1)

\* C13: with jitter 0 the delay before the retry that follows the i-th failed
\* attempt is exactly min(r * m^(i-1), M) with backoff and min(r, M) without.
C13_ExactDelay ==
    (rpc = "sleep" /\ opt.jitter = 0)
    => /\ attempt = Len(hist)
       /\ LET r == opt.retryInterval
              M == opt.maxDelay
              d == IF opt.backoff THEN Times(r, opt.backoffMultiplier, attempt - 1) ELSE r
          IN  delay = IF d <= M THEN d ELSE M

C13_Witness ==
    /\ rpc = "sleep" /\ opt.jitter = 0 /\ opt.backoff
    /\ opt.retryInterval = 8 /\ opt.backoffMultiplier = 3 /\ opt.maxDelay = DefaultMaxDelay
    /\ attempt = 3 /\ delay = 72

\* A capped delay, and a delay without backoff.
C13_WitnessCapped ==
    /\ rpc = "sleep" /\ opt.jitter = 0 /\ opt.backoff
    /\ opt.retryInterval = 8 /\ opt.backoffMultiplier = 3 /\ opt.maxDelay = 16
    /\ attempt = 2 /\ delay = 16

\* C14: at most one invocation of the operation is outstanding at any time.
C14_OneOutstanding == outstanding <= 1

\* The run that departs from C14: the timer fired, retry() slept and invoked the
\* operation again while the invocation it abandoned was still pending.
C14_Divergence ==
    /\ rpc = "await" /\ opt.timeout > 0 /\ calls = 2 /\ outstanding = 2
    /\ hist = <<[ok |-> FALSE, kind |-> "Error", by |-> "timer"]>>

\* C15: an attempt that times out fails with a kind of its own, one that no
\* error of the operation is an instance of, and that failure is retried exactly
\* when the list is empty or lists that kind.
C15_TimeoutIsItsOwnKind ==
    \A i \in 1..Len(hist) :
        hist[i].by = "timer"
        => /\ \A k \in ErrorKinds : hist[i].kind \notin KindsOf(k)
           /\ (i < Len(hist) \/ rpc = "sleep") => RetryableKind(hist[i].kind)
           /\ (i = Len(hist) /\ rpc = "thrown" /\ ~IsLastAttempt(attempt, opt))
                => ~RetryableKind(hist[i].kind)

\* The run that departs from C15: the only list that has the timeout retried
\* names Error, and under it an error of the operation is retried as well.
C15_Divergence ==
    /\ ListedKinds = {"Error"} /\ Len(hist) = 2 /\ rpc = "sleep"
    /\ hist[1] = [ok |-> FALSE, kind |-> "Error", by |-> "timer"]
    /\ hist[2] = [ok |-> FALSE, kind |-> "NetworkError", by |-> "op"]

\* ------------------------------------------------------ claims: rules()
\* The numeric value of a rate string, read from the left.
RECURSIVE CentsFrom(_, _)
CentsFrom(s, acc) == IF s = <<>> THEN acc ELSE CentsFrom(Tail(s), 10 * acc + Head(s))
Cents(s) == CentsFrom(s, 0)

InputRates == easypostShipment.rates.a
InputZone == easypostShipment.usps_zone

\* The rates that pass the rule: at most 2 delivery days, and not USPS when zone > 2.
Candidates ==
    { i \in 1..Len(InputRates) :
        /\ InputRates[i].delivery_days <= 2
        /\ (InputZone > 2 => InputRates[i].carrier # "USPS") }

Cheapest(S) == { i \in S : \A j \in S : Cents(InputRates[i].rate) <= Cents(InputRates[j].rate) }

RulesCalled == rulesResult # Undefined

FailsNoSuitableRates == ~rulesResult.ok /\ rulesResult.kind = "NoSuitableRatesError"

\* C7: rules() returns the id of a rate with the smallest numeric rate among those
\* with at most 2 delivery days, USPS left out when zone > 2, and fails with
\* NoSuitableRatesError exactly when no such rate exists.
C7_AgreesWithReference ==
    RulesCalled =>
        IF Candidates = {}
            THEN FailsNoSuitableRates
            ELSE /\ rulesResult.ok
                 /\ \E i \in Cheapest(Candidates) : rulesResult.v = InputRates[i].id

C7_Witness ==
    /\ RulesCalled /\ Len(InputRates) = 3
    /\ Cardinality(Candidates) = 1
    /\ \E i \in Candidates : rulesResult.v = InputRates[i].id /\ i = 3

C7_WitnessNumeric ==
    /\ RulesCalled /\ rulesResult.ok
    /\ \E i \in Candidates, j \in Candidates :
        /\ InputRates[i].rate = <<9, 0, 0>> /\ InputRates[j].rate = <<1, 0, 0, 0>>
        /\ j < i
        /\ rulesResult.v = InputRates[i].id

\* The rates with at most 2 delivery days, whatever the carrier.
InTime == { i \in 1..Len(InputRates) : InputRates[i].delivery_days <= 2 }

\* C8: rules() never returns a USPS rate when zone > 2; when zone <= 2 it returns
\* a cheapest rate with at most 2 delivery days, USPS or not.  For the rates
\* [USPS cheaper in 2 days, UPS dearer in 1 day] it returns USPS in zone 1 and
\* UPS in zone 3.
C8_UspsOnlyUpToZone2 ==
    RulesCalled =>
        /\ (InputZone > 2 /\ rulesResult.ok)
            => \A i \in 1..Len(InputRates) :
                    rulesResult.v = InputRates[i].id => InputRates[i].carrier # "USPS"
        /\ (InputZone <= 2 /\ InTime # {})
            => /\ rulesResult.ok
               /\ \E i \in Cheapest(InTime) : rulesResult.v = InputRates[i].id
        /\ (/\ Len(InputRates) = 2
            /\ InputRates[1].carrier = "USPS" /\ InputRates[1].delivery_days = 2
            /\ InputRates[2].carrier = "UPS" /\ InputRates[2].delivery_days = 1
            /\ Cents(InputRates[1].rate) < Cents(InputRates[2].rate))
            => /\ InputZone = 1 => rulesResult.v = InputRates[1].id
               /\ InputZone = 3 => rulesResult.v = InputRates[2].id

C8_Witness ==
    /\ RulesCalled /\ InputZone = 3 /\ rulesResult.ok
    /\ Len(InputRates) = 2
    /\ InputRates[1].carrier = "USPS" /\ InputRates[1].delivery_days = 2
    /\ InputRates[1].rate = <<9, 0, 0>>
    /\ InputRates[2].carrier = "UPS" /\ InputRates[2].delivery_days = 1
    /\ InputRates[2].rate = <<1, 0, 0, 0>>
    /\ rulesResult.v = InputRates[2].id

\* C9: rules() fails with NoSuitableRatesError for an empty list of rates and for
\* every list in which each rate has more than 2 delivery days, whatever the zone.
C9_EmptyOrSlowFails ==
    (RulesCalled /\ \A i \in 1..Len(InputRates) : InputRates[i].delivery_days > 2)
    => FailsNoSuitableRates

C9_Witness ==
    /\ RulesCalled /\ Len(InputRates) = 2 /\ InputZone = 1
    /\ \A i \in 1..Len(InputRates) : InputRates[i].delivery_days > 2
    /\ FailsNoSuitableRates
    /\ rulesResult.msg = "No rates for 2 days or less"

\* ------------------------------------- claims: purchaseShippingLabelsHandler
\* Every attempt of the retry() call of this fulfillment order ended with
\* NoSuitableRatesError, and as many attempts were made as the configured
\* maxRetries allows.
Exhausted ==
    /\ Len(hist) = opt.maxRetries.v + 1
    /\ \A i \in 1..Len(hist) : ~hist[i].ok /\ hist[i].kind = "NoSuitableRatesError"

Notified == \E i \in 1..Len(notifications) : notifications[i].fo = fo

Bought == \E i \in 1..Len(buys) : buys[i].fo = fo

\* C4: when every one of the maxRetries+1 quoting attempts ends with
\* NoSuitableRatesError, with maxRetries taken from the environment, the handler
\* sends the notification (live mails on) and rejects with that error, and buys
\* nothing for the shipment.
C4_ExhaustionNotifies ==
    (hpc = "rejected" /\ Exhausted)
    => /\ herr.kind = "NoSuitableRatesError"
       /\ SendLive => Notified
       /\ ~Bought

\* The run that departs from C4: SHIPPING_RATE_SEARCH_RETRIES is set, every
\* attempt it allows was rejected by rules(), and the handler has rejected with a
\* TypeError of the purchase step without sending the notification.
C4_Divergence ==
    /\ hpc = "rejected" /\ Exhausted /\ SendLive
    /\ env.SHIPPING_RATE_SEARCH_RETRIES # NoOpt
    /\ rpc = "returned" /\ result.v = Undefined
    /\ herr.kind = "TypeError" /\ ~Notified

\* C5: when retry() fails with an error that is not a NoSuitableRatesError, the
\* handler rejects with that same error and does not reach the purchase step.
C5_OtherErrorsPropagate ==
    (/\ hpc \in {"buy", "rejected"}
     /\ rpc = "thrown"
     /\ result.e.kind # "NoSuitableRatesError")
    => /\ hpc = "rejected"
       /\ herr = result.e

\* The run that departs from C5: retry() threw the error of createShipment, the
\* handler went on to the purchase step and rejected with a TypeError instead.
C5_Divergence ==
    /\ hpc = "rejected" /\ rpc = "thrown"
    /\ result.e.kind = "Error" /\ herr.kind = "TypeError"
    /\ herr # result.e

\* C6: when retry() returns a chosen rate id to the handler, that id is the id of
\* exactly one rate of shipmentResponse, and shipmentResponse is the response to
\* the createShipment call of the last attempt: every attempt made its own call.
C6_ChosenFromLastResponse ==
    (hpc \in {"retry", "buy", "fulfil", "rejected"} /\ rpc = "returned" /\ result.v # Undefined)
    => /\ shipmentResponse # Undefined
       /\ shipmentResponse.id = ShipmentId(fo, calls)
       /\ calls = Len(hist)
       /\ shipmentResponse.rates # Undefined
       /\ hpc # "retry" => chosenRate = result.v
       /\ Cardinality({ i \in 1..Len(shipmentResponse.rates.a) :
                            shipmentResponse.rates.a[i].id = result.v }) = 1

C6_Witness ==
    /\ hpc = "buy" /\ rpc = "returned" /\ calls = 2 /\ fo = 2
    /\ hist[1].kind = "NoSuitableRatesError"
    /\ result.v = RateId(ShipmentId(2, 2), 2)
    /\ chosenRate = result.v

\* The response to the latest createShipment call is stored and holds no rates.
NoQuotes(response) ==
    IF response.rates = Undefined THEN TRUE ELSE response.rates.a = <<>>

LastResponseStored ==
    /\ hpc \in {"retry", "buy", "rejected"}
    /\ calls >= 1 /\ Len(hist) = calls
    /\ shipmentResponse # Undefined
    /\ shipmentResponse.id = ShipmentId(fo, calls)

\* C16: an attempt whose response holds no rates, the list absent or empty, fails
\* with an error that is not a NoSuitableRatesError and is not retried: retry()
\* throws it, no further createShipment call is made and no notification is sent.
C16_NoQuotesNotRetried ==
    (LastResponseStored /\ NoQuotes(shipmentResponse))
    => /\ ~hist[calls].ok
       /\ hist[calls].kind # "NoSuitableRatesError"
       /\ rpc = "thrown"
       /\ ~Notified

\* The run that departs from C16: every response had an empty list of rates, each
\* was retried, and the notification was sent.
C16_Divergence ==
    /\ hpc = "rejected" /\ calls = DefaultMaxRetries + 1 /\ Len(hist) = calls
    /\ shipmentResponse.id = ShipmentId(fo, calls)
    /\ shipmentResponse.rates = Array(<<>>)
    /\ hist[1].kind = "NoSuitableRatesError"
    /\ herr = Err("NoSuitableRatesError", "Easypost shipment returned zero rates", calls)
    /\ Notified

\* C17: the "no suitable shipping rate" mail is sent at most once for a
\* fulfillment order, and at most once in a run of the handler.
C17_NotifiedAtMostOnce ==
    /\ Len(notifications) <= 1
    /\ \A f \in 1..Len(fulfillmentOrders) :
            Cardinality({ i \in 1..Len(notifications) : notifications[i].fo = f }) <= 1

C17_Witness ==
    /\ hpc = "rejected" /\ fo = 2 /\ Len(buys) = 1
    /\ calls = DefaultMaxRetries + 1
    /\ Len(notifications) = 1 /\ notifications[1].fo = 2

\* C19: whenever the notification has been sent, or the handler has rejected with
\* a NoSuitableRatesError, exactly maxRetries+1 createShipment calls were made for
\* that fulfillment order, every attempt ended with NoSuitableRatesError, and the
\* handler rejects with the error of the last one.
Escalated ==
    \/ Len(notifications) >= 1
    \/ hpc = "rejected" /\ herr.kind = "NoSuitableRatesError"

C19_NotifiedOnlyAfterExhaustion ==
    Escalated
    => /\ hpc = "rejected" /\ rpc = "thrown"
       /\ \A i \in 1..Len(notifications) : notifications[i].fo = fo
       /\ calls = opt.maxRetries.v + 1
       /\ Exhausted
       /\ herr.kind = "NoSuitableRatesError"
       /\ herr.seq = calls
       /\ ~Bought

C19_Witness ==
    /\ Len(notifications) = 1 /\ fo = 1
    /\ env.SHIPPING_RATE_SEARCH_RETRIES = NoOpt
    /\ calls = 4 /\ Len(hist) = 4
    /\ herr = Err("NoSuitableRatesError", "No rates for 2 days or less", 4)

\* C20: the rates listed in the notification are those of the response to the
\* last createShipment call made for that fulfillment order.
C20_NotificationListsLastResponse ==
    Len(notifications) >= 1
    => /\ shipmentResponse.id = ShipmentId(notifications[1].fo, calls)
       /\ notifications[1].rates = shipmentResponse.rates
       /\ \A i \in 1..Len(notifications[1].rates.a) :
            notifications[1].rates.a[i].id = RateId(ShipmentId(notifications[1].fo, calls), i)

C20_Witness ==
    /\ Len(notifications) = 1 /\ calls = 4
    /\ Len(notifications[1].rates.a) = 1
    /\ notifications[1].rates.a[1].id = RateId(ShipmentId(1, 4), 1)
    /\ notifications[1].rates.a[1].carrier = "UPS"
    /\ notifications[1].rates.a[1].delivery_days = 3

\* ------------------------------------------- claims: the webhook route
\* C18: in production a request whose HMAC header is missing or is not the HMAC
\* of its body under the shared secret is answered 401 and starts no processing;
\* a request with the matching HMAC is accepted and starts processing once.
C18_HmacGate ==
    (Production /\ status # 0)
    => IF request.hmac = Digest(request.body, WebhookSecret)
        THEN status = 200 /\ started = 1
        ELSE status = 401 /\ started = 0 /\ hpc = "idle"

\* The run that departs from C18: a header whose length is not that of a digest
\* is answered 500.
C18_Divergence ==
    /\ Production /\ status = 500 /\ started = 0 /\ hpc = "idle"
    /\ request.hmac = String(3, <<"abc">>)

\* ------------------------- claims: purchaseShippingLabelsHandler, continued
\* C21: an attempt that fails with an error that is not a NoSuitableRatesError,
\* such as a createShipment call that rejects, is the last attempt of the retry()
\* call: retry() throws at once, with no further createShipment call and no
\* suspension after it, even after earlier attempts were retried.
C21_OtherErrorEndsRetry ==
    \A i \in 1..Len(hist) :
        (~hist[i].ok /\ hist[i].kind # "NoSuitableRatesError")
        => /\ i = Len(hist)
           /\ rpc = "thrown"
           /\ result.e.kind = hist[i].kind /\ result.e.seq = i
           /\ calls = i
           /\ sleeps = i - 1
           /\ delay = -1

C21_Witness ==
    /\ hpc = "retry" /\ rpc = "thrown" /\ calls = 2 /\ sleeps = 1
    /\ hist = << [ok |-> FALSE, kind |-> "NoSuitableRatesError", by |-> "op"],
                 [ok |-> FALSE, kind |-> "Error", by |-> "op"] >>
    /\ result = Thrown(Err("Error", "createShipment failed", 2))

\* C22: the handler passes no jitter option and disables backoff, so every delay
\* between two createShipment calls equals retryInterval exactly.
C22_IntervalOnlySpacing ==
    (hpc = "retry" /\ rpc = "sleep") => delay = opt.retryInterval

\* The run that departs from C22: the delay between two createShipment calls is
\* half the configured interval.
C22_Divergence ==
    /\ hpc = "retry" /\ rpc = "sleep" /\ ~opt.backoff
    /\ env.SHIPPING_RATE_SEARCH_RETRY_INTERVAL = [retryInterval |-> 8]
    /\ opt.jitter = DefaultJitter
    /\ delay = 4

\* C29: a label is bought at most once for a fulfillment order in a run, only
\* after rules() returned a rate id, and buyShipment is called with the id of the
\* last shipment response and that rate id.
C29_BuysChosenRate ==
    /\ \A f \in 1..Len(fulfillmentOrders) :
            Cardinality({ i \in 1..Len(buys) : buys[i].fo = f }) <= 1
    /\ \A i \in 1..Len(buys) :
            /\ buys[i].rate # Undefined
            /\ (buys[i].fo = fo /\ hpc \in {"fulfil", "rejected"})
                => /\ rpc = "returned" /\ hist[Len(hist)].ok
                   /\ buys[i].shipment = ShipmentId(fo, calls)
                   /\ buys[i].rate = result.v

\* The run that departs from C29: rules() returned a rate id and buyShipment was
\* called with the rate id undefined.
C29_Divergence ==
    /\ hpc = "fulfil" /\ rpc = "returned"
    /\ chosenRate = RateId(ShipmentId(1, 1), 1)
    /\ buys = << [fo |-> 1, shipment |-> ShipmentId(1, 1), rate |-> Undefined] >>

\* ------------------------------------------- claims: retry(), continued
\* C23: with jitter j > 0 and d the delay after the cap, every delay retry()
\* suspends for lies in [d*(1 - j/2), d*(1 + j/2)] and is not negative.  (jitter
\* is kept in halves, so d*j/2 is d * opt.jitter / 4.)
C23_JitterRange ==
    (rpc = "sleep" /\ opt.jitter > 0)
    => LET r == opt.retryInterval
           b == IF opt.backoff THEN Times(r, opt.backoffMultiplier, attempt - 1) ELSE r
           d == IF b <= opt.maxDelay THEN b ELSE opt.maxDelay
       IN  /\ 4 * delay >= 4 * d - d * opt.jitter
           /\ 4 * delay <= 4 * d + d * opt.jitter
           /\ delay >= 0

C23_Witness ==
    /\ rpc = "sleep" /\ opt.jitter = 1 /\ ~opt.backoff /\ opt.retryInterval = 8
    /\ attempt = 2 /\ delay = 9

\* The lowest delay of the range, under the default jitter of 1.
C23_WitnessLow ==
    /\ rpc = "sleep" /\ opt.jitter = 2 /\ opt.backoff /\ opt.retryInterval = 8
    /\ opt.backoffMultiplier = 3 /\ opt.maxDelay = 16 /\ attempt = 2 /\ delay = 8

\* C24: in every completed retry() call that made an attempt, the number of
\* suspensions is the number of invocations less one.
C24_SleepsBetweenAttempts ==
    (Completed /\ ~ConfigRejected) => sleeps = calls - 1

\* The run that departs from C24: after the failure of the last attempt the loop
\* allows, retry() suspends once more.
C24_Divergence ==
    /\ rpc = "returned" /\ opt.maxRetries = NumHalf(1)
    /\ calls = 2 /\ sleeps = 2 /\ Len(hist) = 2
    /\ ~hist[2].ok

\* C28: a retry() call that returns returns the value of a successful invocation,
\* for every maxRetries that passes the validation.
C28_ReturnsAResult ==
    rpc = "returned"
    => /\ Len(hist) >= 1 /\ hist[Len(hist)].ok
       /\ result = Returned(Value("Success!", calls))

\* The run that departs from C28: maxRetries is a string, every invocation failed,
\* and retry() returned undefined.
C28_Divergence ==
    /\ rpc = "returned" /\ result = Returned(Undefined)
    /\ opt.maxRetries.t = "string" /\ ~opt.maxRetries.nan
    /\ calls = opt.maxRetries.v + 1 /\ Len(hist) = calls
    /\ \A i \in 1..Len(hist) : ~hist[i].ok

\* ------------------------------------------- claims: rules(), continued
\* C25: when several eligible rates share the smallest numeric rate, rules()
\* returns the id of the one that comes first in the list it was given.
C25_FirstOfTheCheapest ==
    (RulesCalled /\ Candidates # {})
    => /\ rulesResult.ok
       /\ \E i \in Cheapest(Candidates) :
            /\ \A j \in Cheapest(Candidates) : i <= j
            /\ rulesResult.v = InputRates[i].id

C25_Witness ==
    /\ RulesCalled /\ Len(InputRates) = 3 /\ Candidates = {1, 2, 3}
    /\ Cheapest(Candidates) = {2, 3}
    /\ InputRates[2].carrier # InputRates[3].carrier
    /\ rulesResult.v = InputRates[2].id

\* ------------------------------------------- claims: retry(), termination
\* C30: a retry() call makes at most maxRetries+1 invocations and completes in the
\* end, provided each invocation settles in the end; with a timeout it completes
\* even when an invocation never settles.
MostInvocations == IF opt.maxRetries.nan THEN 0 ELSE opt.maxRetries.v + 1

C30_EventuallyCompletes ==
    /\ [](calls <= MostInvocations)
    /\ (rpc \in {"await", "sleep"}) ~> Completed

C30_Witness ==
    /\ rpc = "thrown" /\ opt.timeout = 40 /\ opt.maxRetries = Num(2)
    /\ calls = 3 /\ outstanding = 3
    /\ \A i \in 1..Len(hist) : hist[i].by = "timer"
    /\ result = Thrown(Err("Error", "Operation timed out", 3))

\* --------------------------------- claims: concurrent retry() calls
\* What a call that runs alone shows at every moment, as a function of its own
\* arguments and of the outcomes of its own invocations (s.hist): the attempt
\* counter, the number of invocations and the outcome.
RetriedBy(s, k) ==
    \/ s.ErrorTypes.items = <<>>
    \/ \E i \in 1..Len(s.ErrorTypes.items) : s.ErrorTypes.items[i] \in KindsOf(k)

Alone(s) ==
    LET n == Len(s.hist)
        last == s.hist[n]
    IN  /\ s.attempt = s.sleeps
        /\ s.calls <= s.opt.maxRetries.v + 1
        /\ \A i \in 1..(n - 1) : ~s.hist[i].ok /\ RetriedBy(s, s.hist[i].kind)
        /\ s.rpc = "idle" => s.calls = 0 /\ n = 0 /\ s.attempt = 0
        /\ s.rpc = "await" => s.calls = n + 1 /\ s.attempt = n
        /\ s.rpc = "sleep"
            => s.calls = n /\ s.attempt = n /\ ~last.ok /\ RetriedBy(s, last.kind)
        /\ s.rpc = "returned"
            => /\ s.calls = n /\ s.attempt = n - 1 /\ last.ok
               /\ s.result = Returned(Value("Success!", n))
        /\ s.rpc = "thrown"
            => /\ s.calls = n /\ s.attempt = n - 1 /\ ~last.ok
               /\ s.result = Thrown(Err(last.kind, "failed", n))
               /\ n = s.opt.maxRetries.v + 1 \/ ~RetriedBy(s, last.kind)

\* C26: under every interleaving of two retry() calls, the attempt counter, the
\* number of invocations (at most maxRetries+1) and the outcome of each call are
\* what they are when the call runs alone with the same outcomes of its operation.
C26_NoInterference == Alone(Saved) /\ Alone(other)

C26_Witness ==
    /\ focus = 2 /\ rpc = "sleep" /\ attempt = 1 /\ opt.maxRetries = Num(1)
    /\ other.rpc = "thrown" /\ other.attempt = 2 /\ other.calls = 3
    /\ other.opt.maxRetries = Num(2)
    /\ other.ErrorTypes.items = <<"NetworkError">>

\* --------------------------------- claims: duplicate webhook deliveries
\* C27: in production at most one label is ever bought for a fulfillment order,
\* under every interleaving of the runs the duplicate deliveries start.
C27_OneLabelPerFulfillmentOrder ==
    Production
    => \A f \in 1..Len(shop) :
            Cardinality({ i \in 1..Len(labels) : labels[i].fo = f }) <= 1

\* The run that departs from C27: both runs fetched the order while its first
\* fulfillment order was open, and both bought a label for it.
C27_Divergence ==
    /\ Production /\ shop[1] = "OPEN"
    /\ runs[1].pc = "fulfil" /\ runs[2].pc = "fulfil"
    /\ runs[1].f = 1 /\ runs[2].f = 1
    /\ labels = << [run |-> 1, fo |-> 1], [run |-> 2, fo |-> 1] >>
====
